---- MODULE Spec2Model ----
(***************************************************************************)
(* Model of the dataflow core (src/dataflow/core.py): the module registry, *)
(* Instrument construction, Template ordering / iteration / execution and  *)
(* the version-tagged pickling of Template and Data.                       *)
(*                                                                         *)
(* Python objects are modelled by reference: heap is the sequence of       *)
(* Module objects constructed so far, and an object is its index in heap.  *)
(* Two objects can hold equal attributes and still be different objects.   *)
(***************************************************************************)
EXTENDS Integers, Sequences, FiniteSets, TLC

VARIABLES
    heap,        \* Module objects constructed so far (object = index)
    _registry,   \* core._registry: module id -> object, NoObject when absent
    call,        \* the last call: what was called and how it ended
    instrument,  \* the Instrument object last constructed, NoInstrument if none
    INSTRUMENTS, \* config.INSTRUMENTS: the ids of the registered instruments
    template,    \* the Template object: its modules (nodes) and wires
    ordered,     \* the last Template.order() call: what it raised or returned
    run,         \* an execute call: "idle", "running", "done" or "aborted"
    pos,         \* how many nodes of the order the call has been through
    yielded,     \* what Template.__iter__ has yielded: <<node, inputs>> pairs
    invoked,     \* the action invocations, in order: the node, and whether it raised
    status,      \* the status the call reports for each node
    results,     \* the Data each node put on its output terminal
    data,        \* a Data object: whether it exists, and its attributes
    pickled,     \* the last __getstate__ / __setstate__ call and its outcome
    loadedT,     \* the Template object a load is filling: its __dict__
    loadedD      \* the Data object a load is filling: its __dict__

coreVars == <<heap, _registry, call, instrument, INSTRUMENTS>>
execVars == <<run, pos, yielded, invoked, status, results>>
persistVars == <<data, pickled, loadedT, loadedD>>
tmplVars == <<template, ordered, execVars, persistVars>>
vars == <<heap, _registry, call, instrument, INSTRUMENTS, template, ordered,
          run, pos, yielded, invoked, status, results, data, pickled,
          loadedT, loadedD>>

----------------------------------------------------------------------------
(* Bounds *)

MaxObjects == 2
MaxMenuModules == 2
MaxNodes == 3
MaxWires == 3
MaxExecWires == 2
MaxInstruments == 2

----------------------------------------------------------------------------
(* Values *)

NoObject == 0

OSPEC_DATA == "data2d.ospec"

ModuleIds == {"ospec.join", "ospec.wiggle"}
\* The version the instrument definitions pass to the factories.
Versions == {"1.0"}
DatatypeIds == {OSPEC_DATA, "data1d"}

\* The two terminals every factory of src/dataflow/modules declares.
join_terminals(datatype) ==
    << [id |-> "input", datatype |-> datatype, use |-> "in",
        description |-> "Data parts", required |-> FALSE, multiple |-> TRUE],
       [id |-> "output", datatype |-> datatype, use |-> "out",
        description |-> "Combined data"] >>

wiggle_terminals(datatype) ==
    << [id |-> "input", datatype |-> datatype, use |-> "in",
        description |-> "data", required |-> FALSE, multiple |-> TRUE],
       [id |-> "output", datatype |-> datatype, use |-> "out",
        description |-> "corrected data"] >>

\* Module.__init__: the eight attributes, stored as given.
Module(id, version, name, description, icon, terminals, fields, action) ==
    [id |-> id, version |-> version, name |-> name,
     description |-> description, icon |-> icon, fields |-> fields,
     terminals |-> terminals, action |-> action]

\* join_module(id, datatype, action, version): the attributes of the Module
\* it returns.
join_module(id, datatype, version) ==
    Module(id, version, "Join", "Combine multiple datasets",
           [URI |-> "sum.png",
            terminals |-> [input |-> <<-15, 1, -1, 0>>,
                           output |-> <<15, 1, 1, 0>>]],
           join_terminals(datatype), <<>>, "join_action")

\* wiggle_module(id, datatype, action, version): description is the action's
\* docstring (None for wiggle_action), fields start with the amplitude field.
wiggle_module(id, datatype, version) ==
    Module(id, version, "Wiggle", "None",
           [URI |-> "wiggle.png",
            terminals |-> [input |-> <<0, 10, -1, 0>>,
                           output |-> <<20, 10, 1, 0>>]],
           wiggle_terminals(datatype),
           << [type |-> "float", label |-> "amplitude", name |-> "scale"] >>,
           "wiggle_action")

Objects == 1..Len(heap)

\* Structural equality of two Module objects: attribute by attribute.
StructEq(a, b) == heap[a] = heap[b]

----------------------------------------------------------------------------
(* Constructing Module objects *)

\* The last call seen by the caller: the operation, its argument (a Module
\* object for register_module, an id for lookup_module), the exception it
\* raised and the object it returned.
NoCall ==
    [op |-> "none", module |-> NoObject, id |-> "none", raised |-> "none",
     result |-> NoObject, menu |-> <<>>, datatypes |-> <<>>]

\* A call of a module factory: a new object on the heap.
NewModule(m) ==
    /\ Len(heap) < MaxObjects
    /\ heap' = Append(heap, m)
    /\ UNCHANGED <<_registry, call, instrument, INSTRUMENTS, tmplVars>>

new_join_module ==
    \E id \in ModuleIds, d \in DatatypeIds, v \in Versions :
        NewModule(join_module(id, d, v))

new_wiggle_module ==
    \E id \in ModuleIds, d \in DatatypeIds, v \in Versions :
        NewModule(wiggle_module(id, d, v))

----------------------------------------------------------------------------
(* The registry: core.py lines 8-27 *)

\* module != _registry[module.id]: Module defines no __eq__/__ne__, so the
\* comparison is Python's default one, by object identity.
ModuleNe(a, b) == a # b

\* Whether register_module raises ValueError("Module already registered").
register_raises(o) ==
    /\ _registry[heap[o].id] # NoObject
    /\ ModuleNe(o, _registry[heap[o].id])

\* A register_module that stores the module whether or not it raised.
register_storeMutant(o) == [_registry EXCEPT ![heap[o].id] = o]

\* The registry register_module leaves: untouched when it raises.
register_store(o) ==
    IF register_raises(o) THEN _registry
    ELSE [_registry EXCEPT ![heap[o].id] = o]

register_module(o) ==
    /\ _registry' = register_store(o)
    /\ call' = [op |-> "register_module", module |-> o, id |-> heap[o].id,
                raised |-> IF register_raises(o) THEN "ValueError" ELSE "none",
                result |-> NoObject, menu |-> <<>>, datatypes |-> <<>>]
    /\ UNCHANGED <<heap, instrument, INSTRUMENTS, tmplVars>>

\* lookup_module(id): _registry[id], a KeyError when the id is absent.
lookup_module(id) ==
    /\ call' = [op |-> "lookup_module", module |-> NoObject, id |-> id,
                raised |-> IF _registry[id] = NoObject THEN "KeyError" ELSE "none",
                result |-> _registry[id], menu |-> <<>>, datatypes |-> <<>>]
    /\ UNCHANGED <<heap, _registry, instrument, INSTRUMENTS, tmplVars>>

----------------------------------------------------------------------------
(* Instrument: core.py lines 229-294, Datatype: lines 296-321 *)

NoInstrument ==
    [id |-> "none", name |-> "none", menu |-> <<>>, datatypes |-> <<>>,
     modules |-> <<>>]

\* Datatype.__init__: the display name defaults to the capitalized id.
Capitalize(id) == IF id = "data1d" THEN "Data1d" ELSE "Data2d.ospec"
Datatype(id) == [id |-> id, name |-> Capitalize(id), plot |-> "None"]

\* Sequences over S of length at most n.
SeqUpTo(S, n) == UNION {[1..k -> S] : k \in 0..n}

\* The lists of Datatype objects an Instrument may be given: any list,
\* duplicates included, no longer than the number of datatype ids.
DatatypeLists ==
    SeqUpTo({Datatype(d) : d \in DatatypeIds}, Cardinality(DatatypeIds))

\* The menus an Instrument may be given: two groups, as in
\* offspecular/instruments.py, holding the modules of a list cut in two.
Menus ==
    { << <<"Input", SubSeq(ms, 1, k)>>,
         <<"Reduction", SubSeq(ms, k + 1, Len(ms))>> >> :
        <<ms, k>> \in { p \in SeqUpTo(Objects, MaxMenuModules) \X (0..MaxMenuModules) :
                          p[2] <= Len(p[1]) } }

RECURSIVE FlattenMenu(_)
\* self.modules: the groups' modules, in menu order.
FlattenMenu(menu) ==
    IF menu = <<>> THEN <<>>
    ELSE menu[1][2] \o FlattenMenu(Tail(menu))

defined(datatypes) == {datatypes[i].id : i \in 1..Len(datatypes)}

used(modules) ==
    UNION { {heap[modules[i]].terminals[j].datatype :
                j \in 1..Len(heap[modules[i]].terminals)} :
            i \in 1..Len(modules) }

\* An _check_datatypes that tests only for undefined types.
_check_datatypesMutant(modules, datatypes) ==
    IF used(modules) \ defined(datatypes) # {} THEN "TypeError" ELSE "none"

\* _check_datatypes: what it raises.
_check_datatypes(modules, datatypes) ==
    IF used(modules) \ defined(datatypes) # {} THEN "TypeError"
    ELSE IF defined(datatypes) \ used(modules) # {} THEN "TypeError"
    ELSE "none"

\* _check_names: what it raises.
_check_names(modules) ==
    IF Cardinality({heap[modules[i]].name : i \in 1..Len(modules)}) # Len(modules)
    THEN "TypeError" ELSE "none"

\* What Instrument.__init__ raises: the first check that fails.
Instrument_raises(menu, datatypes) ==
    IF _check_datatypes(FlattenMenu(menu), datatypes) # "none"
    THEN _check_datatypes(FlattenMenu(menu), datatypes)
    ELSE _check_names(FlattenMenu(menu))

\* Instrument(id, menu=menu, datatypes=datatypes): the caller gets the object
\* only when __init__ returns.
Instrument_init(id, menu, datatypes) ==
    /\ instrument' =
          IF Instrument_raises(menu, datatypes) # "none" THEN instrument
          ELSE [id |-> id, name |-> "NCNR ANDR", menu |-> menu,
                datatypes |-> datatypes, modules |-> FlattenMenu(menu)]
    /\ call' = [op |-> "Instrument", module |-> NoObject, id |-> id,
                raised |-> Instrument_raises(menu, datatypes),
                result |-> NoObject,
                menu |-> menu, datatypes |-> datatypes]
    /\ UNCHANGED <<heap, _registry, INSTRUMENTS, tmplVars>>

\* ANDR = Instrument(...): the statement of the instrument definitions, run
\* once when they are imported.
new_Instrument ==
    /\ call.op # "Instrument"
    /\ \E menu \in Menus, datatypes \in DatatypeLists :
          Instrument_init("ncnr.ospec.andr", menu, datatypes)

RECURSIVE register_modules(_, _)
\* for m in instrument.modules: register_module(m), from the registry reg:
\* the registry the loop leaves, what it raised, and the module it raised on.
register_modules(reg, modules) ==
    IF modules = <<>>
    THEN [registry |-> reg, raised |-> "none", module |-> NoObject]
    ELSE LET m == Head(modules)
         IN  IF reg[heap[m].id] # NoObject /\ ModuleNe(m, reg[heap[m].id])
             THEN [registry |-> reg, raised |-> "ValueError", module |-> m]
             ELSE register_modules([reg EXCEPT ![heap[m].id] = m], Tail(modules))

\* register_instrument(instrument): the id is appended to config.INSTRUMENTS,
\* then the modules are registered one by one.
register_instrument ==
    /\ instrument # NoInstrument
    /\ Len(INSTRUMENTS) < MaxInstruments
    /\ INSTRUMENTS' = Append(INSTRUMENTS, instrument.id)
    /\ LET loop == register_modules(_registry, instrument.modules)
       IN  /\ _registry' = loop.registry
           /\ call' = [op |-> "register_instrument", module |-> loop.module,
                       id |-> instrument.id, raised |-> loop.raised,
                       result |-> NoObject, menu |-> <<>>, datatypes |-> <<>>]
    /\ UNCHANGED <<heap, instrument, tmplVars>>

\* An instrument definition as in offspecular/instruments.py: the modules
\* are built on OSPEC_DATA and the instrument declares datatypes=[data2d].
new_ospec_module ==
    \E id \in ModuleIds :
        \/ NewModule(join_module(id, OSPEC_DATA, "1.0"))
        \/ NewModule(wiggle_module(id, OSPEC_DATA, "1.0"))

new_ospec_Instrument ==
    /\ instrument = NoInstrument
    /\ call.op # "Instrument"
    /\ \E menu \in Menus :
          Instrument_init("ncnr.ospec.andr", menu, <<Datatype(OSPEC_DATA)>>)

----------------------------------------------------------------------------
(* Template: core.py lines 135-213 *)

NoTemplate ==
    [built |-> FALSE, name |-> "", description |-> "", modules |-> <<>>,
     wires |-> <<>>, instrument |-> "", version |-> ""]
NoOrder == [called |-> FALSE, raised |-> "none", value |-> <<>>]

\* A wire of a template: source and target are [node index, terminal name].
\* Node indices count from 0, as in the source.
Wire(u, v) == [source |-> <<u, "output">>, target |-> <<v, "input">>]

Range(f) == {f[i] : i \in DOMAIN f}
Min(S) == CHOOSE x \in S : \A y \in S : x <= y

\* Number of the pairs equal to <<u, v>>.
CountPairs(pairs, u, v) == Cardinality({i \in DOMAIN pairs : pairs[i] = <<u, v>>})

\* Number of the pairs whose second element is v.
InDegree(pairs, v) == Cardinality({i \in DOMAIN pairs : pairs[i][2] = v})

RECURSIVE Kahn(_, _, _, _)
\* Kahn's algorithm on in-degree counts: the next node is the smallest index
\* whose count is zero; placing it takes one off the count of a target for
\* each of its pairs to it. No node left with a zero count is a cycle.
Kahn(n, pairs, indeg, placed) ==
    IF Len(placed) = n THEN [called |-> TRUE, raised |-> "none", value |-> placed]
    ELSE LET ready == {v \in 0..(n - 1) : v \notin Range(placed) /\ indeg[v] = 0}
         IN  IF ready = {}
             THEN [called |-> TRUE, raised |-> "CycleError", value |-> <<>>]
             ELSE LET v == Min(ready)
                  IN  Kahn(n, pairs,
                           [t \in 0..(n - 1) |-> indeg[t] - CountPairs(pairs, v, t)],
                           Append(placed, v))

\* deps.processing_order(n, pairs).
processing_order(n, pairs) ==
    Kahn(n, pairs, [v \in 0..(n - 1) |-> InDegree(pairs, v)], <<>>)

\* An order() that reads each wire backwards.
order_pairsMutant(wires) ==
    [i \in DOMAIN wires |-> <<wires[i].target[1], wires[i].source[1]>>]

\* An order() that leaves out the wires from a node to itself.
order_pairsNoSelfMutant(wires) ==
    LET kept == SelectSeq(wires, LAMBDA w : w.source[1] # w.target[1])
    IN  [i \in DOMAIN kept |-> <<kept[i].source[1], kept[i].target[1]>>]

\* pairs = [(w['source'][0], w['target'][0]) for w in self.wires]
order_pairs(wires) ==
    [i \in DOMAIN wires |-> <<wires[i].source[1], wires[i].target[1]>>]

\* An order() that counts the wires instead of the modules.
order_nMutant(t) == Len(t.wires)

\* len(self.modules)
order_n(t) == Len(t.modules)

\* An order() that returns the processing order back to front.
orderMutant(t) ==
    LET o == processing_order(order_n(t), order_pairs(t.wires))
    IN  [o EXCEPT !.value = [i \in DOMAIN o.value |-> o.value[Len(o.value) + 1 - i]]]

\* Template.order(): what it returns or raises.
order(t) == processing_order(order_n(t), order_pairs(t.wires))

\* The lists of at most max wires of a template of n nodes.
WireLists(n, max) ==
    SeqUpTo({Wire(u, v) : u \in 0..(n - 1), v \in 0..(n - 1)}, max)

\* Template(name, description, modules, wires, instrument[, version]): the
\* six attributes, stored as given.
Template_init(name, description, modules, wires, instr, version) ==
    /\ template' = [built |-> TRUE, name |-> name, description |-> description,
                    modules |-> modules, wires |-> wires, instrument |-> instr,
                    version |-> version]
    /\ ordered' = NoOrder
    /\ UNCHANGED <<coreVars, execVars, persistVars>>

\* A template whose nodes are modules of the given ids, with at most max
\* wires, built once.
new_Template(ids, max) ==
    /\ ~template.built
    /\ \E n \in 0..MaxNodes :
         \E modules \in [1..n -> {[module |-> id] : id \in ids}] :
           \E wires \in WireLists(n, max) :
             Template_init("test ospec", "example ospec diagram", modules,
                           wires, "ncnr.ospec.andr", "0.0")

\* A call of template.order().
Template_order ==
    /\ template.built
    /\ ordered' = order(template)
    /\ UNCHANGED <<coreVars, template, execVars, persistVars>>

----------------------------------------------------------------------------
(* Iterating and executing a template: core.py lines 207-213 and the       *)
(* engine that consumes the iteration                                      *)

\* The module ids of the nodes of an executed template: "ospec.join" is
\* the join module, whose input is optional and takes any number of wires;
\* "in.required.single" stands for a module whose input is required and
\* takes one wire.
NodeModuleIds == {"ospec.join", "in.required.single"}

\* The input terminals the module of a node declares.
InputTerminals(id) ==
    IF id = "ospec.join" THEN SelectSeq(join_terminals(OSPEC_DATA), LAMBDA t : t.use = "in")
    ELSE << [id |-> "input", datatype |-> OSPEC_DATA, use |-> "in",
             description |-> "data", required |-> TRUE, multiple |-> FALSE] >>

\* An __iter__ that yields only the first wire into the node.
Template_inputsMutant(t, id) ==
    LET all == SelectSeq([i \in DOMAIN t.wires |-> i],
                         LAMBDA i : t.wires[i].target[1] = id)
    IN  SubSeq(all, 1, IF Len(all) > 1 THEN 1 ELSE Len(all))

\* An __iter__ that yields no inputs.
Template_inputsNoneMutant(t, id) == <<>>

\* An __iter__ that selects the wires by their source node.
Template_inputsBySourceMutant(t, id) ==
    SelectSeq([i \in DOMAIN t.wires |-> i], LAMBDA i : t.wires[i].source[1] = id)

\* inputs = [w for w in self.wires if w['target'][0] == id]: the wire
\* objects themselves, each given here by its place in self.wires.
Template_inputs(t, id) ==
    SelectSeq([i \in DOMAIN t.wires |-> i], LAMBDA i : t.wires[i].target[1] = id)

Pending == [state |-> "pending", reason |-> "none", blocking |-> -1]
Succeeded == [state |-> "succeeded", reason |-> "none", blocking |-> -1]
Failed(reason) == [state |-> "failed", reason |-> reason, blocking |-> -1]
Skipped(node) == [state |-> "skipped", reason |-> "UpstreamFailure", blocking |-> node]

\* status is a sequence: the status of node v is at v + 1.
StatusOf(v) == status[v + 1]

\* The producing node of an input wire.
Producer(t, i) == t.wires[i].source[1]

\* The inputs, in the order given, whose producer did not succeed.
Blocked(t, inputs) ==
    SelectSeq(inputs, LAMBDA i : StatusOf(Producer(t, i)).state \in {"failed", "skipped"})

\* The failed node that keeps a node with a blocked input from running: the
\* producer of the first blocked input when it failed, else the node that
\* blocked that producer.
Blocker(t, inputs) ==
    LET u == Producer(t, Blocked(t, inputs)[1])
    IN  IF StatusOf(u).state = "failed" THEN u ELSE StatusOf(u).blocking

\* The wires of the inputs that reach the input terminal named name.
WiredTo(t, inputs, name) ==
    SelectSeq(inputs, LAMBDA i : t.wires[i].target[2] = name)

\* Some declared input terminal is required and has no wire, or is not
\* multiple and has more than one.
WiringViolation(t, id, inputs) ==
    LET terminals == InputTerminals(t.modules[id + 1].module)
    IN  \E k \in DOMAIN terminals :
            \/ terminals[k].required /\ Len(WiredTo(t, inputs, terminals[k].id)) = 0
            \/ ~terminals[k].multiple /\ Len(WiredTo(t, inputs, terminals[k].id)) > 1

\* A node that put no Data on its output terminal.
NoOutput ==
    [exists |-> FALSE, name |-> "", datatype |-> "", intent |-> "",
     dataid |-> <<>>, history |-> <<>>]

\* The configuration a call gives to each node: one value of a field per
\* node, no two nodes with the same.
per_node_config(t) == [k \in DOMAIN t.modules |-> [scale |-> k]]

\* A history with every back-reference moved up by off places: the history
\* as it reads once off entries stand before it.
Shift(history, off) ==
    [p \in DOMAIN history |->
        [history[p] EXCEPT !.inputs =
            [name \in DOMAIN history[p].inputs |->
                [q \in DOMAIN history[p].inputs[name] |->
                    << history[p].inputs[name][q][1] + off,
                       history[p].inputs[name][q][2] >>]]]]

RECURSIVE Gather(_, _, _, _, _)
\* The histories of the Data on the inputs, one after the other in wire
\* order, and for each input its target terminal and the place of the entry
\* of its producer (history indices count from 0, as in the source).
Gather(t, inputs, res, history, refs) ==
    IF inputs = <<>> THEN [history |-> history, refs |-> refs]
    ELSE LET w == t.wires[Head(inputs)]
             upstream == res[w.source[1] + 1].history
         IN  Gather(t, Tail(inputs), res,
                    history \o Shift(upstream, Len(history)),
                    Append(refs, [terminal |-> w.target[2],
                                  ref |-> <<Len(history) + Len(upstream) - 1,
                                            w.source[2]>>]))

\* The history entry of a node: module id, version, configuration, and for
\* each input terminal the (history index, output terminal) pairs wired to it.
HistoryEntry(t, id, refs) ==
    LET terminals == InputTerminals(t.modules[id + 1].module)
    IN  [module |-> t.modules[id + 1].module,
         version |-> "1.0",
         config |-> per_node_config(t)[id + 1],
         inputs |-> [name \in {terminals[k].id : k \in DOMAIN terminals} |->
                       LET wired == SelectSeq(refs, LAMBDA r : r.terminal = name)
                       IN  [q \in DOMAIN wired |-> wired[q].ref]]]

\* The Data a node that succeeded puts on its output terminal: its history
\* is the history of its inputs with one entry appended.
node_output(t, id, inputs, res) ==
    LET gathered == Gather(t, inputs, res, <<>>, <<>>)
    IN  [exists |-> TRUE, name |-> "output", datatype |-> OSPEC_DATA,
         intent |-> "signal", dataid |-> <<id, "output">>,
         history |-> Append(gathered.history, HistoryEntry(t, id, gathered.refs))]

\* execute(template, config) starts: the first next() of iter(template) runs
\* self.order() to its end before anything is yielded. A CycleError ends the
\* call.
execute_begin ==
    /\ template.built
    /\ run = "idle"
    /\ ordered' = order(template)
    /\ run' = IF order(template).raised # "none" THEN "aborted"
              ELSE IF Len(order(template).value) = 0 THEN "done"
              ELSE "running"
    /\ status' = [v \in 1..Len(template.modules) |-> Pending]
    /\ results' = [v \in 1..Len(template.modules) |-> NoOutput]
    /\ pos' = 0
    /\ UNCHANGED <<coreVars, template, yielded, invoked, persistVars>>

\* One turn of the loop: __iter__ yields the next node of the order with
\* its inputs, and the engine settles that node. raises tells whether the
\* node's action raises when it is invoked.
execute_node(raises) ==
    /\ run = "running"
    /\ LET id == ordered.value[pos + 1]
           inputs == Template_inputs(template, id)
           result ==
               IF Blocked(template, inputs) # <<>>
               THEN Skipped(Blocker(template, inputs))
               ELSE IF WiringViolation(template, id, inputs)
               THEN Failed("WiringConstraintError")
               ELSE IF raises THEN Failed("NodeExecutionError")
               ELSE Succeeded
       IN  /\ yielded' = Append(yielded, <<id, inputs>>)
           /\ invoked' = IF result.reason \in {"UpstreamFailure", "WiringConstraintError"}
                         THEN invoked
                         ELSE Append(invoked, [node |-> id, raised |-> raises])
           /\ status' = [status EXCEPT ![id + 1] = result]
           /\ results' = IF result = Succeeded
                         THEN [results EXCEPT ![id + 1] = node_output(template, id, inputs, results)]
                         ELSE results
    /\ pos' = pos + 1
    /\ run' = IF pos + 1 = Len(ordered.value) THEN "done" ELSE "running"
    /\ UNCHANGED <<coreVars, template, ordered, persistVars>>

----------------------------------------------------------------------------
(* Running mutually non-dependent nodes in parallel *)

\* The action of the node is in flight.
Running == [state |-> "running", reason |-> "none", blocking |-> -1]

\* The node has its final status.
Settled(v) == StatusOf(v).state \in {"succeeded", "failed", "skipped"}

\* Every producer of the node has its final status.
Ready(t, v) ==
    \A i \in Range(Template_inputs(t, v)) : Settled(Producer(t, i))

\* The call is over when no node is pending or in flight.
run_after(st) ==
    IF \A k \in DOMAIN st : st[k].state \in {"succeeded", "failed", "skipped"}
    THEN "done" ELSE "parallel"

\* execute(template, config) starts in an engine that runs nodes in
\* parallel: the order is resolved, and so validated, before any node.
parallel_begin ==
    /\ template.built
    /\ run = "idle"
    /\ ordered' = order(template)
    /\ run' = IF order(template).raised # "none" THEN "aborted"
              ELSE IF Len(order(template).value) = 0 THEN "done"
              ELSE "parallel"
    /\ status' = [v \in 1..Len(template.modules) |-> Pending]
    /\ results' = [v \in 1..Len(template.modules) |-> NoOutput]
    /\ UNCHANGED <<coreVars, template, pos, yielded, invoked, persistVars>>

\* A pending node whose producers are settled is taken up: it is skipped
\* or fails its wiring at once, or its action begins.
node_start(v) ==
    /\ run = "parallel"
    /\ StatusOf(v) = Pending
    /\ Ready(template, v)
    /\ LET inputs == Template_inputs(template, v)
           result ==
               IF Blocked(template, inputs) # <<>>
               THEN Skipped(Blocker(template, inputs))
               ELSE IF WiringViolation(template, v, inputs)
               THEN Failed("WiringConstraintError")
               ELSE Running
       IN  /\ status' = [status EXCEPT ![v + 1] = result]
           /\ run' = run_after([status EXCEPT ![v + 1] = result])
    /\ UNCHANGED <<coreVars, template, ordered, pos, yielded, invoked, results,
                   persistVars>>

\* The action of a node in flight completes: it returned or it raised.
node_finish(v, raises) ==
    /\ run = "parallel"
    /\ StatusOf(v) = Running
    /\ LET result == IF raises THEN Failed("NodeExecutionError") ELSE Succeeded
       IN  /\ status' = [status EXCEPT ![v + 1] = result]
           /\ run' = run_after([status EXCEPT ![v + 1] = result])
           /\ results' = IF raises THEN results
                         ELSE [results EXCEPT ![v + 1] =
                                  node_output(template, v, Template_inputs(template, v),
                                              results)]
    /\ UNCHANGED <<coreVars, template, ordered, pos, yielded, invoked, persistVars>>

----------------------------------------------------------------------------
(* Version-tagged pickling: core.py lines 215-227 and 368-372 *)

\* The format tags a persisted pair may carry: the one this code writes and
\* two it does not.
Tags == {"1.0", "0.9", "2.0"}

\* The __dict__ of an object made by a load before any state is installed.
EmptyDict == [installed |-> FALSE, attrs |-> <<>>]

\* An installed __dict__: the attribute names with their values.
Dict(attrs) == [installed |-> TRUE, attrs |-> attrs]

\* self.__dict__ of a Template: the attributes __init__ has set.
Template_dict(t) ==
    Dict([name |-> t.name, description |-> t.description, modules |-> t.modules,
          wires |-> t.wires, instrument |-> t.instrument, version |-> t.version])

NoPickle ==
    [op |-> "none", raised |-> "none", tag |-> "none", state |-> EmptyDict]

NoData ==
    [exists |-> FALSE, name |-> "", datatype |-> "", intent |-> "",
     dataid |-> "", history |-> <<>>]

\* The attributes of a Data object.
Data_dict(d) ==
    Dict([name |-> d.name, datatype |-> d.datatype, intent |-> d.intent,
          dataid |-> d.dataid, history |-> d.history])

\* The Data objects: a name, a datatype, an intent, a key and a history.
DataObjects ==
    {[exists |-> TRUE, name |-> name, datatype |-> datatype, intent |-> intent,
      dataid |-> name, history |-> <<>>] :
        name \in {"Isabc2002.cg1", "Isabc2003.cg1"},
        datatype \in DatatypeIds,
        intent \in {"signal", "background"}}

\* A Data object, as the engine makes one for an output.
new_Data ==
    /\ ~data.exists
    /\ \E d \in DataObjects : data' = d
    /\ UNCHANGED <<coreVars, template, ordered, execVars, pickled, loadedT, loadedD>>

\* Template.__getstate__: returns '1.0', self.__dict__.
Template_getstate ==
    /\ template.built
    /\ pickled' = [op |-> "Template.__getstate__", raised |-> "none",
                   tag |-> "1.0", state |-> Template_dict(template)]
    /\ UNCHANGED <<coreVars, template, ordered, execVars, data, loadedT, loadedD>>

\* A __setstate__ that accepts every tag.
Template_tagMismatchMutant(version) == FALSE

\* version != '1.0'
Template_tagMismatch(version) == version # "1.0"

\* Template.__setstate__((version, state)) on an object whose __dict__ is
\* dict: a TypeError for another tag, which leaves the __dict__ as it is,
\* else the state becomes the __dict__.
Template_setstate(dict, version, state) ==
    /\ pickled' = [op |-> "Template.__setstate__",
                   raised |-> IF Template_tagMismatch(version)
                              THEN "TypeError" ELSE "none",
                   tag |-> version, state |-> state]
    /\ loadedT' = IF Template_tagMismatch(version) THEN dict ELSE state
    /\ UNCHANGED <<coreVars, template, ordered, execVars, data, loadedD>>

\* A load of a persisted Template: a new object, its __dict__ empty, is
\* given the state a __getstate__ has returned, under any tag.
load_Template ==
    /\ template.built
    /\ \E version \in Tags :
          Template_setstate(EmptyDict, version, Template_dict(template))

\* Data.__getstate__: returns "1.0", __dict__, where __dict__ is a name
\* that is bound nowhere: a NameError.
Data_getstate ==
    /\ data.exists
    /\ pickled' = [op |-> "Data.__getstate__", raised |-> "NameError",
                   tag |-> "none", state |-> EmptyDict]
    /\ UNCHANGED <<coreVars, template, ordered, execVars, data, loadedT, loadedD>>

\* Data.__setstate__((version, state)): the state becomes the __dict__,
\* whatever the tag.
Data_setstate(dict, version, state) ==
    /\ pickled' = [op |-> "Data.__setstate__", raised |-> "none",
                   tag |-> version, state |-> state]
    /\ loadedD' = state
    /\ UNCHANGED <<coreVars, template, ordered, execVars, data, loadedT>>

\* A load of a persisted Data: a new object, its __dict__ empty, is given
\* the attributes of some Data object, under any tag.
load_Data ==
    \E version \in Tags, d \in DataObjects :
        Data_setstate(EmptyDict, version, Data_dict(d))

----------------------------------------------------------------------------

Init ==
    /\ heap = <<>>
    /\ _registry = [id \in ModuleIds |-> NoObject]
    /\ call = NoCall
    /\ instrument = NoInstrument
    /\ INSTRUMENTS = <<>>
    /\ template = NoTemplate
    /\ ordered = NoOrder
    /\ run = "idle"
    /\ pos = 0
    /\ yielded = <<>>
    /\ invoked = <<>>
    /\ status = <<>>
    /\ results = <<>>
    /\ data = NoData
    /\ pickled = NoPickle
    /\ loadedT = EmptyDict
    /\ loadedD = EmptyDict

NextRegistry ==
    \/ new_join_module
    \/ new_wiggle_module
    \/ \E o \in Objects : register_module(o)
    \/ \E id \in ModuleIds : lookup_module(id)

SpecRegistry == Init /\ [][NextRegistry]_vars

NextInstrument ==
    \/ new_join_module
    \/ new_wiggle_module
    \/ new_Instrument

SpecInstrument == Init /\ [][NextInstrument]_vars

\* Startup: modules are built and registered, the instrument is defined,
\* then it is registered.
NextRegisterInstrument ==
    \/ new_ospec_module
    \/ instrument = NoInstrument /\ \E o \in Objects : register_module(o)
    \/ new_ospec_Instrument
    \/ register_instrument

SpecRegisterInstrument == Init /\ [][NextRegisterInstrument]_vars

NextOrder ==
    \/ new_Template({"ospec.join"}, MaxWires)
    \/ Template_order

SpecOrder == Init /\ [][NextOrder]_vars

NextExecute ==
    \/ new_Template(NodeModuleIds, MaxExecWires)
    \/ execute_begin
    \/ \E raises \in BOOLEAN : execute_node(raises)

SpecExecute == Init /\ [][NextExecute]_vars

\* A call runs its nodes, join modules, one by one or in parallel.
NextSchedule ==
    \/ new_Template({"ospec.join"}, MaxExecWires)
    \/ execute_begin
    \/ \E raises \in BOOLEAN : execute_node(raises)
    \/ parallel_begin
    \/ \E v \in 0..(Len(template.modules) - 1) : node_start(v)
    \/ \E v \in 0..(Len(template.modules) - 1), raises \in BOOLEAN :
          node_finish(v, raises)

SpecSchedule == Init /\ [][NextSchedule]_vars

NextPersistTemplate ==
    \/ new_Template({"ospec.join"}, MaxWires)
    \/ Template_getstate
    \/ load_Template

SpecPersistTemplate == Init /\ [][NextPersistTemplate]_vars

NextPersistData ==
    \/ new_Data
    \/ Data_getstate
    \/ load_Data

SpecPersistData == Init /\ [][NextPersistData]_vars

----------------------------------------------------------------------------
(* Ordering claims *)

Nodes(t) == 0..(Len(t.modules) - 1)

\* The wiring as a relation: u -> v when some wire runs from a terminal of
\* node u to a terminal of node v.
Edges(t) == {<<t.wires[i].source[1], t.wires[i].target[1]>> : i \in DOMAIN t.wires}

RECURSIVE Closure(_, _)
\* The pairs joined by a path of at most k + 1 edges of R.
Closure(R, k) ==
    IF k = 0 THEN R
    ELSE LET C == Closure(R, k - 1)
         IN  C \cup {<<e[1], f[2]>> : <<e, f>> \in {p \in C \X R : p[1][2] = p[2][1]}}

\* u -> ... -> v by one wire or more.
Reaches(t) == Closure(Edges(t), Len(t.modules))

\* A self-loop or a longer cycle.
HasCycle(t) == \E v \in Nodes(t) : <<v, v>> \in Reaches(t)

\* The places of node v in a sequence of nodes.
Places(seq, v) == {i \in DOMAIN seq : seq[i] = v}

\* C3: for a template whose wires hold no cycle, order() raises nothing and
\* returns a sequence holding each node index 0..n-1 exactly once, nodes
\* without wires included, with the source node of every wire before its
\* target node.
C3_OrderValid ==
    (ordered.called /\ ~HasCycle(template)) =>
        /\ ordered.raised = "none"
        /\ Len(ordered.value) = Len(template.modules)
        /\ \A v \in Nodes(template) : Cardinality(Places(ordered.value, v)) = 1
        /\ \A i \in DOMAIN template.wires :
              \A a \in Places(ordered.value, template.wires[i].source[1]) :
                \A b \in Places(ordered.value, template.wires[i].target[1]) :
                    a < b

\* order() has returned for a template of three nodes in which node 0
\* consumes from node 2 over two wires and node 1 has no wire at all.
C3_Witness ==
    /\ ordered.called
    /\ ordered.raised = "none"
    /\ Len(template.modules) = 3
    /\ Len(template.wires) = 2
    /\ Edges(template) = {<<2, 0>>}
    /\ ordered.value = <<1, 2, 0>>

RECURSIVE RefOrder(_, _, _)
\* The order built by choosing, again and again, the smallest node all of
\* whose producers are already placed.
RefOrder(N, E, placed) ==
    LET ready == {v \in N \ Range(placed) :
                     \A e \in E : e[2] = v => e[1] \in Range(placed)}
    IN  IF ready = {} THEN placed
        ELSE RefOrder(N, E, Append(placed, Min(ready)))

\* The permutations of 1..n.
Perms(n) == {f \in [1..n -> 1..n] : \A i, j \in 1..n : f[i] = f[j] => i = j}

\* The template t with another wire list.
Rewired(t, wires) == [t EXCEPT !.wires = wires]

\* The wire list without the wires that repeat an earlier one.
Dedup(wires) ==
    SelectSeq([i \in DOMAIN wires |->
                  IF \E j \in 1..(i - 1) : wires[j] = wires[i]
                  THEN [source |-> <<-1, "output">>, target |-> <<-1, "input">>]
                  ELSE wires[i]],
              LAMBDA w : w.source[1] >= 0)

\* C4: for an acyclic wiring, order() returns exactly the order built by
\* choosing the smallest ready node again and again, and returns the same
\* sequence for the wire list permuted, for the wire list with its
\* duplicate wires removed and for the wire list with every wire doubled.
C4_TieBreak ==
    (ordered.called /\ ~HasCycle(template)) =>
        /\ ordered.value = RefOrder(Nodes(template), Edges(template), <<>>)
        /\ \A f \in Perms(Len(template.wires)) :
              order(Rewired(template, [i \in DOMAIN template.wires |->
                                          template.wires[f[i]]])) = ordered
        /\ order(Rewired(template, Dedup(template.wires))) = ordered
        /\ order(Rewired(template, template.wires \o template.wires)) = ordered

\* order() has returned for a template in which nodes 0 and 2 are both
\* ready at the start and node 1 consumes from node 2 over two wires.
C4_Witness ==
    /\ ordered.called
    /\ ordered.raised = "none"
    /\ Len(template.modules) = 3
    /\ Len(template.wires) = 2
    /\ Edges(template) = {<<2, 1>>}
    /\ ordered.value = <<0, 2, 1>>

----------------------------------------------------------------------------
(* Execution claims *)

\* The nodes whose action was invoked, and those whose action raised.
InvokedNodes == {invoked[i].node : i \in DOMAIN invoked}
RaisedNodes == {invoked[i].node : i \in {j \in DOMAIN invoked : invoked[j].raised}}
TimesInvoked(v) == Cardinality({i \in DOMAIN invoked : invoked[i].node = v})

FailedNodes == {v \in Nodes(template) : StatusOf(v).state = "failed"}

\* Node v consumes, directly or through other nodes, from a failed node.
DependsOnFailed(v) == \E u \in FailedNodes : <<u, v>> \in Reaches(template)

\* The nodes that consume, directly or through other nodes, from node v.
Dependents(v) == {d \in Nodes(template) : <<v, d>> \in Reaches(template)}

\* C5: for a wiring with a self-loop or a longer cycle the order fails with
\* CycleError and returns no order, the iteration yields nothing, and the
\* execution invokes no action and settles no node, on or off the cycle.
C5_CycleRejected ==
    (run # "idle" /\ HasCycle(template)) =>
        /\ run = "aborted"
        /\ ordered.raised = "CycleError"
        /\ ordered.value = <<>>
        /\ yielded = <<>>
        /\ invoked = <<>>
        /\ \A v \in Nodes(template) : StatusOf(v) = Pending

\* An execution was given a template in which nodes 0 and 1 form a cycle
\* and node 2 is on no cycle.
C5_Witness ==
    /\ run = "aborted"
    /\ Len(template.modules) = 3
    /\ Edges(template) = {<<0, 1>>, <<1, 0>>}
    /\ invoked = <<>>

\* An execution was given a template whose only wire is a self-loop.
C5_WitnessSelfLoop ==
    /\ run = "aborted"
    /\ Len(template.modules) = 3
    /\ Edges(template) = {<<1, 1>>}

\* C6: when an execution of an acyclic template is over, every node has
\* one of the three statuses; a node whose action raised is failed; a node
\* that depends on a failed node is skipped, names a failed node it depends
\* on, and its action was never invoked; a node that neither failed nor
\* depends on a failed node had its action invoked once and succeeded.
C6_FailureContainment ==
    run = "done" =>
        \A v \in Nodes(template) :
            /\ StatusOf(v).state \in {"succeeded", "failed", "skipped"}
            /\ v \in RaisedNodes =>
                  StatusOf(v) = Failed("NodeExecutionError")
            /\ DependsOnFailed(v) =>
                  /\ StatusOf(v).state = "skipped"
                  /\ StatusOf(v).blocking \in FailedNodes
                  /\ <<StatusOf(v).blocking, v>> \in Reaches(template)
                  /\ v \notin InvokedNodes
            /\ (~DependsOnFailed(v) /\ v \notin FailedNodes) =>
                  /\ StatusOf(v) = Succeeded
                  /\ TimesInvoked(v) = 1

\* The chain 0 -> 1 -> 2 was executed and the action of node 1 raised.
C6_Witness ==
    /\ run = "done"
    /\ Edges(template) = {<<0, 1>>, <<1, 2>>}
    /\ RaisedNodes = {1}
    /\ status = <<Succeeded, Failed("NodeExecutionError"), Skipped(1)>>

\* Number of the wires into the terminal named name of node v.
WiresInto(v, name) ==
    Cardinality({i \in DOMAIN template.wires : template.wires[i].target = <<v, name>>})

\* Node v breaks the wire-count constraint of one of its input terminals.
BreaksConstraint(v) ==
    LET terminals == InputTerminals(template.modules[v + 1].module)
    IN  \E k \in DOMAIN terminals :
            \/ terminals[k].required /\ WiresInto(v, terminals[k].id) = 0
            \/ ~terminals[k].multiple /\ WiresInto(v, terminals[k].id) > 1

\* Every yield of the iteration hands over the wires into the node, each
\* once, in the order of the wire list.
GatheredInWireOrder ==
    \A k \in DOMAIN yielded :
        LET v == yielded[k][1]
            inputs == yielded[k][2]
        IN  /\ Range(inputs) = {i \in DOMAIN template.wires :
                                    template.wires[i].target[1] = v}
            /\ \A a, b \in DOMAIN inputs : a < b => inputs[a] < inputs[b]

\* The parts of C7 that do not depend on what is upstream of the node: the
\* dependents of a node that failed its wiring are all skipped, a node that
\* is neither miswired nor downstream of a failure is run, and the inputs
\* are gathered in wire order.
C7_Common ==
    /\ GatheredInWireOrder
    /\ run = "done" =>
          \A v \in Nodes(template) :
              /\ StatusOf(v) = Failed("WiringConstraintError") =>
                    /\ BreaksConstraint(v)
                    /\ v \notin InvokedNodes
                    /\ \A d \in Dependents(v) :
                          StatusOf(d).reason = "UpstreamFailure"
              /\ (~BreaksConstraint(v) /\ ~DependsOnFailed(v)) =>
                    /\ TimesInvoked(v) = 1
                    /\ v \notin RaisedNodes => StatusOf(v) = Succeeded

C7_WitnessTwoWires ==
    /\ run = "done"
    /\ WiresInto(1, "input") = 2
    /\ StatusOf(0) = Succeeded
    /\ StatusOf(1) = Failed("WiringConstraintError")

----------------------------------------------------------------------------
(* Persistence claims *)

TemplateAttributes ==
    {"name", "description", "modules", "wires", "instrument", "version"}

\* The attributes of a state are those of the template, name by name.
SameAsTemplate(state) ==
    /\ state.installed
    /\ DOMAIN state.attrs = TemplateAttributes
    /\ state.attrs.name = template.name
    /\ state.attrs.description = template.description
    /\ state.attrs.modules = template.modules
    /\ state.attrs.wires = template.wires
    /\ state.attrs.instrument = template.instrument
    /\ state.attrs.version = template.version

\* C9: saving a Template returns the tag '1.0' with the six attributes of
\* the template; loading a pair under another tag raises and installs
\* nothing in the new object; loading a pair under '1.0' raises nothing and
\* leaves the new object with exactly the saved attributes.
C9_TemplateTag ==
    /\ pickled.op = "Template.__getstate__" =>
          /\ pickled.raised = "none"
          /\ pickled.tag = "1.0"
          /\ SameAsTemplate(pickled.state)
    /\ (pickled.op = "Template.__setstate__" /\ pickled.tag # "1.0") =>
          /\ pickled.raised = "TypeError"
          /\ loadedT = EmptyDict
    /\ (pickled.op = "Template.__setstate__" /\ pickled.tag = "1.0") =>
          /\ pickled.raised = "none"
          /\ loadedT = pickled.state
          /\ SameAsTemplate(loadedT)

\* A load of a template of three nodes and two wires, persisted under the
\* tag '0.9', was refused.
C9_Witness ==
    /\ pickled.op = "Template.__setstate__"
    /\ pickled.tag = "0.9"
    /\ pickled.raised = "TypeError"
    /\ Len(pickled.state.attrs.modules) = 3
    /\ Len(pickled.state.attrs.wires) = 2
    /\ loadedT = EmptyDict

\* A load of a template of three nodes and two wires, persisted under the
\* tag '1.0', was accepted.
C9_WitnessLoaded ==
    /\ pickled.op = "Template.__setstate__"
    /\ pickled.tag = "1.0"
    /\ Len(loadedT.attrs.modules) = 3
    /\ Len(loadedT.attrs.wires) = 2

\* C10: saving a Data object returns the tag '1.0' with the attributes of
\* the object, and loading a persisted Data under another tag raises and
\* leaves the state of the new object unset.
C10_DataTag ==
    /\ pickled.op = "Data.__getstate__" =>
          /\ pickled.raised = "none"
          /\ pickled.tag = "1.0"
          /\ pickled.state = Data_dict(data)
    /\ (pickled.op = "Data.__setstate__" /\ pickled.tag # "1.0") =>
          /\ pickled.raised # "none"
          /\ loadedD = EmptyDict

\* C10, the load alone: a persisted Data under another tag is refused.
C10_DataLoadRefused ==
    (pickled.op = "Data.__setstate__" /\ pickled.tag # "1.0") =>
        /\ pickled.raised # "none"
        /\ loadedD = EmptyDict

\* C10, the save alone: saving a Data object returns a tagged pair.
C10_DataSaved ==
    pickled.op = "Data.__getstate__" =>
        /\ pickled.raised = "none"
        /\ pickled.tag = "1.0"
        /\ pickled.state = Data_dict(data)

----------------------------------------------------------------------------
(* Instrument claims *)

\* The datatype ids an Instrument call declares.
DeclaredIds(datatypes) == {d \in DatatypeIds : \E i \in DOMAIN datatypes : datatypes[i].id = d}

\* The datatype ids the terminals of the modules of a menu's groups refer to.
ReferencedIds(menu) ==
    {d \in DatatypeIds :
        \E g \in DOMAIN menu : \E i \in DOMAIN menu[g][2] :
            \E t \in DOMAIN heap[menu[g][2][i]].terminals :
                heap[menu[g][2][i]].terminals[t].datatype = d}

\* C8: an Instrument construction succeeds only if the declared datatype ids
\* equal the ids its menu's modules refer to; otherwise it raises and binds
\* no object, so an Instrument that exists has declared = referenced.
C8_DatatypeClosure ==
    /\ call.op = "Instrument" =>
          /\ call.raised = "none" =>
                DeclaredIds(call.datatypes) = ReferencedIds(call.menu)
          /\ DeclaredIds(call.datatypes) # ReferencedIds(call.menu) =>
                call.raised = "TypeError" /\ instrument = NoInstrument
    /\ instrument # NoInstrument =>
          DeclaredIds(instrument.datatypes) = ReferencedIds(instrument.menu)

\* An Instrument was constructed from a menu with modules in both groups.
C8_Witness ==
    /\ call.op = "Instrument"
    /\ call.raised = "none"
    /\ instrument # NoInstrument
    /\ instrument.menu[1][2] # <<>>
    /\ instrument.menu[2][2] # <<>>
    /\ DeclaredIds(instrument.datatypes) = DatatypeIds

\* A construction was refused only because a declared datatype is unused.
C8_WitnessUnused ==
    /\ call.op = "Instrument"
    /\ call.raised = "TypeError"
    /\ ReferencedIds(call.menu) # {}
    /\ ReferencedIds(call.menu) \subseteq DeclaredIds(call.datatypes)
    /\ ReferencedIds(call.menu) # DeclaredIds(call.datatypes)

----------------------------------------------------------------------------
(* Registry claims *)

\* The id of object o is occupied by a definition structurally equal to o.
OccupiedByEqual(o) ==
    /\ _registry[heap[o].id] # NoObject
    /\ StructEq(o, _registry[heap[o].id])

\* The id of object o is occupied by a structurally different definition.
OccupiedByDifferent(o) ==
    /\ _registry[heap[o].id] # NoObject
    /\ ~StructEq(o, _registry[heap[o].id])

\* C1: registering a module whose id is occupied by a structurally equal
\* definition (the same object or a separately constructed one) raises
\* nothing and leaves the id mapped to a structurally equal definition.
C1_IdempotentRegister ==
    [][\A o \in Objects :
         (OccupiedByEqual(o) /\ register_module(o))
             => /\ call'.raised = "none"
                /\ StructEq(_registry'[heap[o].id], _registry[heap[o].id])]_vars

\* C2: registering a module whose id is occupied by a structurally
\* different definition raises the conflict error and leaves every id of
\* the registry mapped to what it was mapped to before, so that a lookup of
\* the id still returns the first definition.
C2_ConflictKeepsRegistry ==
    [][\A o \in Objects :
         (OccupiedByDifferent(o) /\ register_module(o))
             => /\ call'.raised = "ValueError"
                /\ \A id \in ModuleIds : _registry'[id] = _registry[id]]_vars

\* A conflicting registration has happened: the last call was a
\* register_module that raised against a structurally different incumbent.
C2_Witness ==
    /\ call.op = "register_module"
    /\ call.raised = "ValueError"
    /\ _registry[call.id] # NoObject
    /\ _registry[call.id] # call.module
    /\ ~StructEq(call.module, _registry[call.id])

----------------------------------------------------------------------------
(* Instrument registration claim *)

\* A register_instrument failed: the module it stopped on found, under its
\* id, a registered module that is structurally different from it. A failed
\* register_module stores nothing, so the module found is still there.
ConflictsWithDifferent ==
    /\ call'.op = "register_instrument"
    /\ call'.raised = "ValueError"
    /\ ~StructEq(call'.module, _registry'[heap[call'.module].id])

\* C11: a register_instrument that fails because one of the instrument's
\* modules conflicts with a structurally different module already
\* registered under the same id leaves the module registry and the
\* instrument list exactly as they were before the call.
C11_AllOrNothing ==
    [][ (register_instrument /\ ConflictsWithDifferent)
            => (_registry' = _registry /\ INSTRUMENTS' = INSTRUMENTS) ]_vars

\* The same, for the module registry alone: no module of the instrument
\* listed before the conflicting one is left registered.
C11_RegistryKept ==
    [][ (register_instrument /\ ConflictsWithDifferent)
            => _registry' = _registry ]_vars

----------------------------------------------------------------------------
(* Scheduling claim *)

\* The action of node v has begun: it is in flight, or it returned or raised.
Begun(st, v) ==
    \/ st[v + 1].state \in {"running", "succeeded"}
    \/ st[v + 1] = Failed("NodeExecutionError")

\* The nodes wired into node v.
Producers(v) == {e[1] : e \in {f \in Edges(template) : f[2] = v}}

\* The nodes __iter__ has yielded, in order.
YieldedNodes == [i \in DOMAIN yielded |-> yielded[i][1]]

RECURSIVE SerialStatus(_, _, _, _)
\* The status mapping of a call that takes the nodes one by one in the order
\* ord, from the mapping st, when the actions of the nodes in raising raise.
SerialStatus(t, ord, raising, st) ==
    IF ord = <<>> THEN st
    ELSE LET v == Head(ord)
             inputs == Template_inputs(t, v)
             blocked == SelectSeq(inputs,
                            LAMBDA i : st[Producer(t, i) + 1].state \in {"failed", "skipped"})
             u == Producer(t, blocked[1])
             result ==
                 IF blocked # <<>>
                 THEN Skipped(IF st[u + 1].state = "failed" THEN u ELSE st[u + 1].blocking)
                 ELSE IF WiringViolation(t, v, inputs) THEN Failed("WiringConstraintError")
                 ELSE IF v \in raising THEN Failed("NodeExecutionError")
                 ELSE Succeeded
         IN  SerialStatus(t, Tail(ord), raising, [st EXCEPT ![v + 1] = result])

\* The mapping is the one the nodes whose actions raised determine.
Assembled(st) ==
    st = SerialStatus(template, ordered.value,
                      {v \in Nodes(template) : st[v + 1] = Failed("NodeExecutionError")},
                      [k \in DOMAIN st |-> Pending])

\* C12: in every execute call, serial or with mutually non-dependent nodes
\* in parallel, the action of a node begins only when the actions of all
\* the nodes wired into it have completed; a node is yielded and executed
\* at most once; and the status mapping the call assembles is the one its
\* template and the outcomes of the actions determine, whatever the order
\* in which independent nodes completed.
C12_Schedule ==
    [][ /\ \A v \in Nodes(template) :
             (run \in {"running", "parallel"} /\ Begun(status', v) /\ ~Begun(status, v))
                 => /\ StatusOf(v) = Pending
                    /\ \A u \in Producers(v) : StatusOf(u) = Succeeded
        /\ \A v \in Nodes(template) :
             (run \in {"running", "parallel"} /\ StatusOf(v) # Pending /\ StatusOf(v) # Running)
                 => status'[v + 1] = StatusOf(v)
        /\ \A i, j \in DOMAIN yielded' :
             /\ i # j => YieldedNodes'[i] # YieldedNodes'[j]
             /\ <<YieldedNodes'[i], YieldedNodes'[j]>> \in Edges(template') => i < j
        /\ \A v \in Nodes(template') : TimesInvoked(v)' <= 1
        /\ run' = "done" => Assembled(status') ]_vars

\* Nodes 0 and 1, independent of each other, are both in flight and node 2,
\* wired to both, waits.
C12_Witness ==
    /\ run = "parallel"
    /\ Edges(template) = {<<0, 2>>, <<1, 2>>}
    /\ status = <<Running, Running, Pending>>

\* Node 1 completed before node 0 and the call is over.
C12_WitnessDone ==
    /\ run = "done"
    /\ yielded = <<>>
    /\ Edges(template) = {<<0, 2>>, <<1, 2>>}
    /\ status = <<Failed("NodeExecutionError"), Succeeded, Skipped(0)>>

\* A serial call went through the chain 2 -> 0 -> 1.
C12_WitnessSerial ==
    /\ run = "done"
    /\ Edges(template) = {<<2, 0>>, <<0, 1>>}
    /\ YieldedNodes = <<2, 0, 1>>
    /\ status = <<Succeeded, Succeeded, Succeeded>>

----------------------------------------------------------------------------
(* History claim *)

\* The Data node v produced.
DataOf(v) == results[v + 1]

\* The wires into node v, in the order of the template's wire list.
WiresTo(v) ==
    SelectSeq([i \in DOMAIN template.wires |-> i],
              LAMBDA i : template.wires[i].target[1] = v)

\* The (history index, output terminal) pairs of a history entry.
BackRefs(entry) ==
    UNION { Range(entry.inputs[name]) : name \in DOMAIN entry.inputs }

\* The entries of history from place from + 1 to place to.
Block(history, from, to) == SubSeq(history, from + 1, to)

RECURSIVE InputBlocks(_, _, _)
\* The history of v holds, from place off on, the histories of the Data on
\* its inputs one after the other, each as it was but for the places its
\* back-references count from.
InputBlocks(v, inputs, off) ==
    IF inputs = <<>> THEN off = Len(DataOf(v).history) - 1
    ELSE LET upstream == DataOf(Producer(template, Head(inputs))).history
         IN  /\ off + Len(upstream) < Len(DataOf(v).history)
             /\ Block(DataOf(v).history, off, off + Len(upstream)) = Shift(upstream, off)
             /\ InputBlocks(v, Tail(inputs), off + Len(upstream))

\* The nodes on the chain of single wires that ends in v, v included.
RECURSIVE ChainLength(_)
ChainLength(v) ==
    IF WiresInto(v, "input") = 0 THEN 1
    ELSE 1 + ChainLength(Producer(template, WiresTo(v)[1]))

\* v ends a chain: it and every node before it has at most one wire in.
RECURSIVE IsChainEnd(_)
IsChainEnd(v) ==
    /\ WiresInto(v, "input") <= 1
    /\ WiresInto(v, "input") = 1 =>
           IsChainEnd(Producer(template, WiresTo(v)[1]))

C13_WitnessJoin ==
    /\ run = "done"
    /\ Edges(template) = {<<0, 2>>, <<1, 2>>}
    /\ status = <<Succeeded, Succeeded, Succeeded>>
    /\ Len(DataOf(2).history) = 3
    /\ Cardinality(BackRefs(DataOf(2).history[3])) = 2

====
